---- MODULE Spec2Model ----
(***************************************************************************)
(* Model of plugins/modules/oracle.py: one invocation of run_module, which *)
(* validates its parameters, opens one Oracle session, exports one table   *)
(* to a CSV file with export_table_to_csv and reports through exit_json or *)
(* fail_json.  The driver (oracledb), the file system and the host         *)
(* framework are the environment: every call into them either succeeds or  *)
(* raises, and what they return is chosen when the call is made.           *)
(***************************************************************************)
EXTENDS Integers, Sequences, FiniteSets, TLC

VARIABLES
    params,        \* module.params and module.check_mode (lines 154-164, 169)
    pc,            \* the statement run_module executes next
    result,        \* the result dict (lines 144-147, 206-207)
    report,        \* what the invocation reported: exit_json, fail_json or a traceback
    connection,    \* "none", "open" or "closed" (lines 192/197, 210)
    cursor,        \* "none", "open" or "closed" (lines 199, 209)
    fetched,       \* description and rows of the executed query (lines 105-106, 111)
    file,          \* the file at save_path: [exists, content]
    file0,         \* the file at save_path when the invocation started
    environ,       \* the names set in os.environ (lines 176, 184-187)
    exc,           \* the exceptions raised so far, in order: [site, kind, text]
    calls,         \* how many times each external operation has been called
    phases         \* the phases of the invocation entered so far, in order

vars == <<params, pc, result, report, connection, cursor, fetched, file, file0,
          environ, exc, calls, phases>>

----------------------------------------------------------------------------
(* Bounds of the model *)

MaxCols == 2
MaxRows == 2

----------------------------------------------------------------------------
(* Parameter values *)

None == "<None>"

Hosts == {"", "db.example.com"}

ClientLibDirs == {"", "/no/such/lib", "/usr/lib/oracle/lib"}

WalletLocations == {"", "/no/such/wallet", "/wallet/empty", "/wallet/ok"}

TableNames == {None, "", "EMP"}

SavePaths == {None, "", "/tmp/emp.csv"}

Actions == {"export"}

\* os.path.isdir over the directories of the modelled file system
IsDir(path) == path \in {"/usr/lib/oracle/lib", "/wallet/empty", "/wallet/ok"}

\* os.listdir over the directories of the modelled file system
ListDir(path) == IF path = "/wallet/ok" THEN {"cwallet.sso"}
                 ELSE IF path = "/usr/lib/oracle/lib" THEN {"libclntsh.so"}
                 ELSE {}

\* Python truthiness of an optional string parameter
Truthy(s) == s # None /\ s # ""

----------------------------------------------------------------------------
(* Exceptions the environment can raise *)

\* One exception of each kind the except clauses tell apart: an
\* oracledb.DatabaseError (or a subclass of it), and an exception of any other
\* class (oracledb.InterfaceError, OSError, TypeError, ...), each with its text
Exceptions == {[kind |-> "DatabaseError", text |-> "ORA-03113: end-of-file on communication channel"],
               [kind |-> "OtherError", text |-> "[Errno 5] Input/output error"]}

IsDatabaseError(e) == e.kind = "DatabaseError"

----------------------------------------------------------------------------
(* Messages are sequences of text fragments: an f-string is the sequence   *)
(* of its literal parts and interpolated values.                           *)

Contains(msg, text) == \E i \in 1..Len(msg) : msg[i] = text

HostMissingMsg == <<"Missing required parameter: host">>

ExportArgsMsg == <<"Both 'table_name' and 'save_path' are required for export action">>

WalletNotDirMsg(wallet_location) ==
    <<"Wallet location '", wallet_location, "' does not exist or is not a directory.">>

WalletEmptyMsg(wallet_location) ==
    <<"Wallet location '", wallet_location, "' is empty. No wallet files found.">>

ExportedMsg(table_name, save_path) ==
    <<"Table ", table_name, " exported successfully to ", save_path>>

ExportFailedMsg(table_name, text) ==
    <<"Failed to export table ", table_name, ": ", text>>

ConnectionFailedMsg(text) == <<"Database connection failed: ", text>>

IsWalletMsg(msg) ==
    \E w \in WalletLocations : msg = WalletNotDirMsg(w) \/ msg = WalletEmptyMsg(w)

----------------------------------------------------------------------------
(* validate_wallet: <<valid, message>> *)

\* validate_wallet without its check that the directory has entries
validate_wallet_no_listdir(wallet_location) ==
    IF wallet_location = "" \/ ~IsDir(wallet_location)
    THEN <<FALSE, WalletNotDirMsg(wallet_location)>>
    ELSE <<TRUE, <<>>>>

validate_wallet(wallet_location) ==
    IF wallet_location = "" \/ ~IsDir(wallet_location)
    THEN <<FALSE, WalletNotDirMsg(wallet_location)>>
    ELSE IF ListDir(wallet_location) = {}
         THEN <<FALSE, WalletEmptyMsg(wallet_location)>>
         ELSE <<TRUE, <<>>>>

----------------------------------------------------------------------------
(* Results and reports *)

DefaultResult == [changed |-> FALSE, message |-> <<>>]

NoReport == [kind |-> "none", msg |-> <<>>, with_result |-> FALSE,
             changed |-> FALSE, message |-> <<>>]

\* module.exit_json(**result)
ExitJson(res) == [kind |-> "exit_json", msg |-> <<>>, with_result |-> TRUE,
                  changed |-> res.changed, message |-> res.message]

\* module.fail_json(msg=...): the result dict is not passed
FailJson(msg) == [kind |-> "fail_json", msg |-> msg, with_result |-> FALSE,
                  changed |-> FALSE, message |-> <<>>]

\* module.fail_json(msg=error_msg, **result)
FailJsonResult(msg, res) == [kind |-> "fail_json", msg |-> msg, with_result |-> TRUE,
                             changed |-> res.changed, message |-> res.message]

\* an exception that leaves run_module: the interpreter prints a traceback
Traceback(e) == [kind |-> "traceback", msg |-> <<e.text>>, with_result |-> FALSE,
                 changed |-> FALSE, message |-> <<>>]

\* an except clause that reports the failure without the driver's text
ExceptHandlerNoText(e, res) ==
    IF IsDatabaseError(e)
    THEN FailJsonResult(<<"Database connection failed">>, res)
    ELSE Traceback(e)

\* the except clause of run_module's try block
ExceptHandler(e, res) ==
    IF IsDatabaseError(e)
    THEN FailJsonResult(ConnectionFailedMsg(e.text), res)
    ELSE Traceback(e)

\* lines 205-207 without the assignment to result['changed']
ExportResultUnchanged(message) == [changed |-> FALSE, message |-> message]

\* what lines 205-207 leave in result when export_table_to_csv returned message
ExportResult(message) == [changed |-> TRUE, message |-> message]

----------------------------------------------------------------------------
(* The CSV writer *)

\* cursor.description of the queried table, in metadata order
Description == <<"EMPNO", "ENAME", "JOB", "DEPTNO", "SAL">>

Cells == {None, "SMITH"}

\* csv.writer writes None as the empty field and any other value as its str()
CsvField(v) == IF v = None THEN "" ELSE v

CsvRecord(row) == [i \in 1..Len(row) |-> CsvField(row[i])]

\* writer.writerow(columns) on a freshly opened file
WriteHeader(content, columns) == Append(content, CsvRecord(columns))

\* a writer that emits the fetched rows last to first
WriteRowsReversed(content, rows, n) ==
    content \o [i \in 1..n |-> CsvRecord(rows[Len(rows) + 1 - i])]

\* writer.writerows(rows): the first n rows, in order
WriteRowsUpTo(content, rows, n) ==
    content \o [i \in 1..n |-> CsvRecord(rows[i])]

ColumnLists == {SubSeq(Description, 1, c) : c \in 1..MaxCols}

RowLists(c) == UNION {[1..n -> [1..c -> Cells]] : n \in 0..MaxRows}

NoFetch == [columns |-> <<>>, rows |-> <<>>]

OldContent == <<<<"OLD", "DATA">>, <<"1", "2">>, <<"3", "4">>, <<"5", "6">>, <<"7", "8">>>>

Files == {[exists |-> FALSE, content |-> <<>>],
          [exists |-> TRUE, content |-> OldContent]}

----------------------------------------------------------------------------
(* Bookkeeping *)

NoCalls == [init_oracle_client |-> 0, connect |-> 0, cursor |-> 0, execute |-> 0,
            open |-> 0, cursor_close |-> 0, connection_close |-> 0, report |-> 0]

Called(c, name) == [c EXCEPT ![name] = @ + 1]

Raised(site, e) == Append(exc, [site |-> site, kind |-> e.kind, text |-> e.text])

----------------------------------------------------------------------------
(* The phases of an invocation *)

\* the phase run_module is in when it is about to execute statement p
Phase(p, rep) ==
    CASE p \in {"host", "check_mode", "init_client", "tcps"} -> "idle"
      [] p = "connect" -> "connecting"
      [] p \in {"cursor", "action"} -> "connected"
      [] p = "execute" -> "querying"
      [] p \in {"open", "writerow", "writerows"} -> "writing"
      [] p \in {"cursor_close", "connection_close", "exit"} -> "closed"  \* closing, then closed
      [] p = "done" /\ rep.kind \in {"exit_json", "fail_json"} -> "reporting"
      [] OTHER -> "traceback"

Entered(ps, phase) == IF ps[Len(ps)] = phase THEN ps ELSE Append(ps, phase)

----------------------------------------------------------------------------
Init ==
    /\ params \in [host : Hosts, check_mode : BOOLEAN,
                   client_lib_dir : ClientLibDirs, use_tcps : BOOLEAN,
                   wallet_location : WalletLocations, action : Actions,
                   table_name : TableNames, save_path : SavePaths]
    /\ pc = "host"
    /\ result = DefaultResult
    /\ report = NoReport
    /\ connection = "none"
    /\ cursor = "none"
    /\ fetched = NoFetch
    /\ file0 \in Files
    /\ file = file0
    /\ environ = {}
    /\ exc = <<>>
    /\ calls = NoCalls
    /\ phases = <<"idle">>

\* fail_json and exit_json end the process
Report(r) ==
    /\ report' = r
    /\ calls' = Called(calls, "report")
    /\ pc' = "done"

\* an exception raised inside the try block by the call named site
RaiseInTry(site, e, c) ==
    /\ exc' = Raised(site, e)
    /\ report' = ExceptHandler(e, result)
    /\ calls' = IF IsDatabaseError(e) THEN Called(c, "report") ELSE c
    /\ pc' = "done"

\* lines 166-167
CheckHost ==
    /\ pc = "host"
    /\ IF params.host = ""
       THEN Report(FailJson(HostMissingMsg))
       ELSE pc' = "check_mode" /\ UNCHANGED <<report, calls>>
    /\ UNCHANGED <<params, result, connection, cursor, fetched, file, file0,
                   environ, exc>>
    /\ phases' = Entered(phases, Phase(pc', report'))

\* run_module without its check-mode return
CheckModeIgnored ==
    /\ pc = "check_mode"
    /\ pc' = "init_client"
    /\ UNCHANGED <<params, result, report, connection, cursor, fetched, file,
                   file0, environ, exc, calls>>
    /\ phases' = Entered(phases, Phase(pc', report'))

\* lines 169-170
CheckMode ==
    /\ pc = "check_mode"
    /\ IF params.check_mode
       THEN Report(ExitJson(result))
       ELSE pc' = "init_client" /\ UNCHANGED <<report, calls>>
    /\ UNCHANGED <<params, result, connection, cursor, fetched, file, file0,
                   environ, exc>>
    /\ phases' = Entered(phases, Phase(pc', report'))

\* lines 174-176
InitOracleClient ==
    /\ pc = "init_client"
    /\ IF Truthy(params.client_lib_dir) /\ IsDir(params.client_lib_dir)
       THEN \/ /\ calls' = Called(calls, "init_oracle_client")
               /\ environ' = environ \cup {"LD_LIBRARY_PATH"}
               /\ pc' = "tcps"
               /\ UNCHANGED <<report, exc>>
            \/ \E e \in Exceptions :
                 /\ RaiseInTry("init_oracle_client", e,
                               Called(calls, "init_oracle_client"))
                 /\ UNCHANGED environ
       ELSE pc' = "tcps" /\ UNCHANGED <<report, calls, environ, exc>>
    /\ UNCHANGED <<params, result, connection, cursor, fetched, file, file0>>
    /\ phases' = Entered(phases, Phase(pc', report'))

\* lines 179-190 and 194-196
SetUpTransport ==
    /\ pc = "tcps"
    /\ IF params.use_tcps
       THEN LET v == validate_wallet(params.wallet_location) IN
            IF ~v[1]
            THEN Report(FailJson(v[2])) /\ UNCHANGED environ
            ELSE /\ environ' = environ \cup {"TNS_ADMIN", "WALLET_LOCATION",
                                             "SSL_CERT_DIR",
                                             "IGNORE_ANO_ENCRYPTION_FOR_TCPS"}
                 /\ pc' = "connect"
                 /\ UNCHANGED <<report, calls>>
       ELSE pc' = "connect" /\ UNCHANGED <<report, calls, environ>>
    /\ UNCHANGED <<params, result, connection, cursor, fetched, file, file0, exc>>
    /\ phases' = Entered(phases, Phase(pc', report'))

\* a connect step that tries a second time after a DatabaseError
ConnectRetry ==
    /\ pc = "connect"
    /\ \/ /\ connection' = "open"
          /\ calls' = Called(calls, "connect")
          /\ pc' = "cursor"
          /\ UNCHANGED <<report, exc>>
       \/ \E e \in Exceptions :
            /\ IF IsDatabaseError(e) /\ calls.connect = 0
               THEN /\ exc' = Raised("connect", e)
                    /\ calls' = Called(calls, "connect")
                    /\ pc' = "connect"
                    /\ UNCHANGED report
               ELSE RaiseInTry("connect", e, Called(calls, "connect"))
            /\ UNCHANGED connection
    /\ UNCHANGED <<params, result, cursor, fetched, file, file0, environ>>
    /\ phases' = Entered(phases, Phase(pc', report'))

\* lines 192 and 197
Connect ==
    /\ pc = "connect"
    /\ \/ /\ connection' = "open"
          /\ calls' = Called(calls, "connect")
          /\ pc' = "cursor"
          /\ UNCHANGED <<report, exc>>
       \/ \E e \in Exceptions :
            /\ RaiseInTry("connect", e, Called(calls, "connect"))
            /\ UNCHANGED connection
    /\ UNCHANGED <<params, result, cursor, fetched, file, file0, environ>>
    /\ phases' = Entered(phases, Phase(pc', report'))

\* line 199
CreateCursor ==
    /\ pc = "cursor"
    /\ \/ /\ cursor' = "open"
          /\ calls' = Called(calls, "cursor")
          /\ pc' = "action"
          /\ UNCHANGED <<report, exc>>
       \/ \E e \in Exceptions :
            /\ RaiseInTry("cursor", e, Called(calls, "cursor"))
            /\ UNCHANGED cursor
    /\ UNCHANGED <<params, result, connection, fetched, file, file0, environ>>
    /\ phases' = Entered(phases, Phase(pc', report'))

\* lines 201-203
CheckExportArgs ==
    /\ pc = "action"
    /\ IF params.action = "export"
       THEN IF ~Truthy(params.table_name) \/ ~Truthy(params.save_path)
            THEN Report(FailJson(ExportArgsMsg))
            ELSE pc' = "execute" /\ UNCHANGED <<report, calls>>
       ELSE pc' = "cursor_close" /\ UNCHANGED <<report, calls>>
    /\ UNCHANGED <<params, result, connection, cursor, fetched, file, file0,
                   environ, exc>>
    /\ phases' = Entered(phases, Phase(pc', report'))

\* lines 114-115 and 205-207: export_table_to_csv caught e raised by the call
\* named site and returned the failure message; run_module stores it
ExportCaught(site, e) ==
    /\ exc' = Raised(site, e)
    /\ result' = ExportResult(ExportFailedMsg(params.table_name, e.text))
    /\ pc' = "cursor_close"

\* lines 104-106: cursor.execute and cursor.description
Execute ==
    /\ pc = "execute"
    /\ calls' = Called(calls, "execute")
    /\ \/ /\ \E cols \in ColumnLists : \E rows \in RowLists(Len(cols)) :
               fetched' = [columns |-> cols, rows |-> rows]
          /\ pc' = "open"
          /\ UNCHANGED <<result, exc>>
       \/ \E e \in Exceptions :
            /\ ExportCaught("execute", e)
            /\ UNCHANGED fetched
    /\ UNCHANGED <<params, report, connection, cursor, file, file0, environ>>
    /\ phases' = Entered(phases, Phase(pc', report'))

\* line 108: open(save_path, 'w', newline='')
OpenFile ==
    /\ pc = "open"
    /\ calls' = Called(calls, "open")
    /\ \/ /\ file' = [exists |-> TRUE, content |-> <<>>]
          /\ pc' = "writerow"
          /\ UNCHANGED <<result, exc>>
       \/ \E e \in Exceptions :
            /\ ExportCaught("open", e)
            /\ UNCHANGED file
    /\ UNCHANGED <<params, report, connection, cursor, fetched, file0, environ>>
    /\ phases' = Entered(phases, Phase(pc', report'))

\* lines 109-110: writer.writerow(columns)
WriteRow ==
    /\ pc = "writerow"
    /\ \/ /\ file' = [file EXCEPT !.content = WriteHeader(@, fetched.columns)]
          /\ pc' = "writerows"
          /\ UNCHANGED <<result, exc>>
       \/ \E e \in Exceptions :
            /\ ExportCaught("writerow", e)
            /\ UNCHANGED file
    /\ UNCHANGED <<params, report, connection, cursor, fetched, file0, environ,
                   calls>>
    /\ phases' = Entered(phases, Phase(pc', report'))

\* lines 111-113 and 205-207: writer.writerows(cursor.fetchall()), the return
\* of the success message and its storing in result; a failure leaves the
\* rows written before it in the file
WriteRows ==
    /\ pc = "writerows"
    /\ \/ /\ file' = [file EXCEPT !.content =
                        WriteRowsUpTo(@, fetched.rows, Len(fetched.rows))]
          /\ result' = ExportResult(ExportedMsg(params.table_name, params.save_path))
          /\ pc' = "cursor_close"
          /\ UNCHANGED exc
       \/ \E e \in Exceptions : \E n \in 0..Len(fetched.rows) :
            /\ ExportCaught("writerows", e)
            /\ file' = [file EXCEPT !.content = WriteRowsUpTo(@, fetched.rows, n)]
    /\ UNCHANGED <<params, report, connection, cursor, fetched, file0, environ,
                   calls>>
    /\ phases' = Entered(phases, Phase(pc', report'))

\* line 209
CursorClose ==
    /\ pc = "cursor_close"
    /\ \/ /\ cursor' = "closed"
          /\ calls' = Called(calls, "cursor_close")
          /\ pc' = "connection_close"
          /\ UNCHANGED <<report, exc>>
       \/ \E e \in Exceptions :
            /\ RaiseInTry("cursor_close", e, Called(calls, "cursor_close"))
            /\ UNCHANGED cursor
    /\ UNCHANGED <<params, result, connection, fetched, file, file0, environ>>
    /\ phases' = Entered(phases, Phase(pc', report'))

\* line 210
ConnectionClose ==
    /\ pc = "connection_close"
    /\ \/ /\ connection' = "closed"
          /\ calls' = Called(calls, "connection_close")
          /\ pc' = "exit"
          /\ UNCHANGED <<report, exc>>
       \/ \E e \in Exceptions :
            /\ RaiseInTry("connection_close", e, Called(calls, "connection_close"))
            /\ UNCHANGED connection
    /\ UNCHANGED <<params, result, cursor, fetched, file, file0, environ>>
    /\ phases' = Entered(phases, Phase(pc', report'))

\* line 216
Exit ==
    /\ pc = "exit"
    /\ Report(ExitJson(result))
    /\ UNCHANGED <<params, result, connection, cursor, fetched, file, file0,
                   environ, exc>>
    /\ phases' = Entered(phases, Phase(pc', report'))

Next ==
    \/ CheckHost
    \/ CheckMode
    \/ InitOracleClient
    \/ SetUpTransport
    \/ Connect
    \/ CreateCursor
    \/ CheckExportArgs
    \/ Execute
    \/ OpenFile
    \/ WriteRow
    \/ WriteRows
    \/ CursorClose
    \/ ConnectionClose
    \/ Exit

Spec == Init /\ [][Next]_vars

----------------------------------------------------------------------------
(* Vocabulary of the properties *)

Done == pc = "done"

Reported == report.kind \in {"exit_json", "fail_json"}

\* table_name or save_path absent or empty
MissingExportArgs ==
    /\ params.action = "export"
    /\ \/ params.table_name \in {None, ""}
       \/ params.save_path \in {None, ""}

\* wallet_location empty, not an existing directory, or a directory without entries
BadWallet ==
    \/ params.wallet_location = ""
    \/ ~IsDir(params.wallet_location)
    \/ ListDir(params.wallet_location) = {}

\* export_table_to_csv was called: its first statement is cursor.execute
ExportAttempted == calls.execute > 0

ExportSites == {"execute", "open", "writerow", "writerows"}

RaisedAt(sites) == {i \in 1..Len(exc) : exc[i].site \in sites}

NoIO ==
    /\ connection = "none"
    /\ cursor = "none"
    /\ calls.connect = 0
    /\ calls.execute = 0
    /\ calls.open = 0
    /\ file = file0

ExportSucceeded ==
    /\ result.changed
    /\ result.message = ExportedMsg(params.table_name, params.save_path)

----------------------------------------------------------------------------
(* C1: with action=export and table_name or save_path missing,             *)
(* oracledb.connect is never called and the invocation ends in a failure,  *)
(* never in exit_json (the ending is asked of the invocations outside      *)
(* check mode, which returns before any validation).                       *)
C1_ExportArgsFailBeforeConnect ==
    MissingExportArgs =>
        /\ calls.connect = 0
        /\ connection = "none"
        /\ (Done /\ ~params.check_mode) => report.kind # "exit_json"

(* C2 as stated: outside check mode, use_tcps with a bad wallet always     *)
(* ends in fail_json with validate_wallet's message, and never connects.   *)
C2_WalletFailureAlways ==
    (~params.check_mode /\ params.use_tcps /\ BadWallet) =>
        /\ calls.connect = 0
        /\ Done => (report.kind = "fail_json" /\ IsWalletMsg(report.msg))

(* C2: with use_tcps and a bad wallet no connection is ever attempted; and *)
(* when check mode is off, host is non-empty and init_oracle_client did    *)
(* not raise, the invocation ends in fail_json whose message is the        *)
(* wallet message naming wallet_location.                                  *)
C2_WalletRejectedBeforeConnect ==
    (params.use_tcps /\ BadWallet) =>
        /\ calls.connect = 0
        /\ connection = "none"
        /\ (Done /\ ~params.check_mode /\ params.host # "" /\ exc = <<>>) =>
              /\ report.kind = "fail_json"
              /\ IsWalletMsg(report.msg)
              /\ Contains(report.msg, params.wallet_location)
              /\ report.msg = IF params.wallet_location # ""
                                 /\ IsDir(params.wallet_location)
                              THEN WalletEmptyMsg(params.wallet_location)
                              ELSE WalletNotDirMsg(params.wallet_location)

C2_Witness ==
    /\ Done
    /\ params.use_tcps
    /\ params.wallet_location = "/wallet/empty"
    /\ params.client_lib_dir = "/usr/lib/oracle/lib"
    /\ report.kind = "fail_json"
    /\ report.msg = WalletEmptyMsg("/wallet/empty")

(* C3 as stated: in check mode, whatever the other parameters, the         *)
(* invocation returns the default result and does no network or file I/O.  *)
C3_CheckModeAlwaysDefault ==
    params.check_mode =>
        /\ NoIO
        /\ Done => report = ExitJson(DefaultResult)

(* C3: in check mode no connection is opened, no query is executed and     *)
(* the file at save_path is left as it was, whatever the other parameters; *)
(* and when host is non-empty the invocation returns the default result    *)
(* (changed=false, empty message) through exit_json.                       *)
C3_CheckModeNoIO ==
    params.check_mode =>
        /\ NoIO
        /\ calls.init_oracle_client = 0
        /\ environ = {}
        /\ (Done /\ params.host # "") => report = ExitJson(DefaultResult)

C3_Witness ==
    /\ Done
    /\ params.check_mode
    /\ params.use_tcps
    /\ BadWallet
    /\ MissingExportArgs
    /\ file0.exists
    /\ report = ExitJson(DefaultResult)

(* C4: when the query or the file write inside export_table_to_csv raised, *)
(* the invocation ends in exit_json with changed=true and a message that   *)
(* contains the exception's text, never in a fatal failure.                *)
C4_ExportErrorNonFatal ==
    (Done /\ RaisedAt(ExportSites) # {}) =>
        /\ report.kind = "exit_json"
        /\ report.changed
        /\ \A i \in RaisedAt(ExportSites) : Contains(report.message, exc[i].text)

(* C5 as stated: any exception raised by oracledb.connect ends the         *)
(* invocation in fail_json carrying its text; connect is called at most    *)
(* once.                                                                   *)
C5_AnyConnectFailureCaught ==
    /\ calls.connect <= 1
    /\ \A i \in RaisedAt({"connect"}) :
          /\ report.kind = "fail_json"
          /\ Contains(report.msg, exc[i].text)

(* C5: an oracledb.DatabaseError raised by oracledb.connect ends the       *)
(* invocation in fail_json with "Database connection failed: <text>" and   *)
(* the unchanged result; an exception of any other class leaves run_module *)
(* uncaught, with no result reported; connect is called at most once and   *)
(* nothing is called after it failed.                                      *)
C5_ConnectDatabaseErrorCaught ==
    /\ calls.connect <= 1
    /\ \A i \in RaisedAt({"connect"}) :
          /\ Done
          /\ i = Len(exc)
          /\ connection = "none"
          /\ calls.cursor = 0
          /\ IF exc[i].kind = "DatabaseError"
             THEN /\ report.kind = "fail_json"
                  /\ report.msg = <<"Database connection failed: ", exc[i].text>>
                  /\ Contains(report.msg, exc[i].text)
                  /\ ~report.changed
                  /\ calls.report = 1
             ELSE /\ report.kind = "traceback"
                  /\ calls.report = 0

C5_Witness ==
    /\ Done
    /\ calls.connect = 1
    /\ \E i \in RaisedAt({"connect"}) : exc[i].kind = "DatabaseError"
    /\ report.kind = "fail_json"

(* C6: whenever a connection was opened and an export was attempted, the   *)
(* cursor and the connection are both closed when the result is reported.  *)
C6_ClosedBeforeReport ==
    (Reported /\ calls.connect > 0 /\ ExportAttempted) =>
        /\ cursor = "closed"
        /\ connection = "closed"

(* C7 as stated: the reported changed is true iff an export was attempted  *)
(* and the opening of save_path for writing was reached.                   *)
C7_ChangedIffFileOpened ==
    Reported => (report.changed <=> (ExportAttempted /\ calls.open > 0))

(* C7: the reported changed is true iff export_table_to_csv was called     *)
(* (an export was attempted), whether or not the opening of save_path was  *)
(* reached.                                                                *)
C7_ChangedIffExportAttempted ==
    Reported => (report.changed <=> ExportAttempted)

C7_Witness ==
    /\ report.kind = "exit_json"
    /\ report.changed
    /\ ExportAttempted
    /\ calls.open = 0

(* C8: after a successful export of a query with C columns and N rows the  *)
(* file at save_path holds exactly N+1 records, the previous content gone: *)
(* the C column names in metadata order, then the N rows in fetch order,   *)
(* each field as the csv writer renders it.                                *)
C8_ExportedFile ==
    ExportSucceeded =>
        /\ file.exists
        /\ Len(file.content) = Len(fetched.rows) + 1
        /\ file.content[1] = fetched.columns
        /\ \A i \in 1..Len(fetched.rows) :
              /\ Len(file.content[i + 1]) = Len(fetched.columns)
              /\ \A j \in 1..Len(fetched.columns) :
                    file.content[i + 1][j] =
                        IF fetched.rows[i][j] = None THEN "" ELSE fetched.rows[i][j]

C8_Witness ==
    /\ ExportSucceeded
    /\ Done
    /\ file0.exists
    /\ Len(fetched.columns) = 2
    /\ Len(fetched.rows) = 2
    /\ fetched.rows[1] # fetched.rows[2]
    /\ fetched.rows[1][1] = None

----------------------------------------------------------------------------
(* The state machine of the specification *)

PhaseOrder == <<"idle", "connecting", "connected", "querying", "writing",
                "closed", "reporting", "traceback">>

RankOf(phase) == CHOOSE i \in 1..Len(PhaseOrder) : PhaseOrder[i] = phase

\* each phase entered lies later in the order than the one before it
PhasesInOrder ==
    \A i \in 1..(Len(phases) - 1) : RankOf(phases[i]) < RankOf(phases[i + 1])

EachCallAtMostOnce ==
    /\ calls.connect <= 1
    /\ calls.execute <= 1
    /\ calls.open <= 1
    /\ calls.cursor_close <= 1
    /\ calls.connection_close <= 1

\* the file is opened only after cursor.execute returned a result
OpenOnlyAfterQuery ==
    calls.open > 0 =>
        /\ calls.execute = 1
        /\ RaisedAt({"execute"}) = {}
        /\ Len(fetched.columns) > 0

(* C9 as stated: the invocation moves through idle, connecting, connected, *)
(* querying, writing, closed, reporting in that order without revisiting   *)
(* one; connect, execute, open and close happen at most once; the file is  *)
(* opened only after the query succeeded; a report is emitted exactly once *)
(* and is the last step.                                                   *)
C9_LinearWithOneReport ==
    /\ PhasesInOrder
    /\ \A i \in 1..Len(phases) : phases[i] # "traceback"
    /\ EachCallAtMostOnce
    /\ OpenOnlyAfterQuery
    /\ calls.report <= 1
    /\ Reported <=> calls.report = 1
    /\ Done <=> calls.report = 1

(* C9: the same order, at-most-once calls and open-after-query; a report   *)
(* is emitted at most once and is the last step; the invocation ends with  *)
(* exactly one report unless an exception that is not a DatabaseError was  *)
(* raised outside export_table_to_csv, in which case it ends with a        *)
(* traceback and no report.                                                *)
C9_LinearAtMostOneReport ==
    /\ PhasesInOrder
    /\ EachCallAtMostOnce
    /\ OpenOnlyAfterQuery
    /\ calls.report <= 1
    /\ Reported <=> calls.report = 1
    /\ calls.report = 1 => Done
    /\ Done =>
          IF /\ exc # <<>>
             /\ exc[Len(exc)].site \notin ExportSites
             /\ exc[Len(exc)].kind # "DatabaseError"
          THEN report.kind = "traceback" /\ phases[Len(phases)] = "traceback"
          ELSE Reported /\ phases[Len(phases)] = "reporting"
    /\ \A i \in 1..(Len(phases) - 1) : phases[i] \notin {"reporting", "traceback"}

C9_Witness ==
    /\ Done
    /\ phases = <<"idle", "connecting", "connected", "querying", "writing",
                  "closed", "reporting">>
    /\ report.kind = "exit_json"
    /\ calls.connect = 1
    /\ calls.connection_close = 1

(* C10: a fail_json result means that no export was attempted (no query    *)
(* executed, save_path not opened) and carries changed=false; "Database    *)
(* connection failed" is reported only for a failure of connect itself,    *)
(* not for a driver error raised while creating or closing the cursor or   *)
(* closing the connection.                                                 *)
C10_FatalMeansNoExport ==
    report.kind = "fail_json" =>
        /\ ~ExportAttempted
        /\ calls.open = 0
        /\ ~report.changed
        /\ report.msg[1] = "Database connection failed: " =>
              RaisedAt({"cursor", "cursor_close", "connection_close"}) = {}

====
